---- MODULE Spec2Model ----
(***************************************************************************)
(* A model of the bundling pipeline of routes/files/bundle_filegroup.go:   *)
(* the BundleFileGroup handler, run by several concurrent requests, and    *)
(* the goroutine each successful request starts to move the artifact to    *)
(* the object store.  A request is a process whose steps are the places    *)
(* where the handler touches the database, the two directories or the      *)
(* object store; what it does between two such places is local, and is     *)
(* part of the step that follows.                                          *)
(*                                                                         *)
(* A field of the request body is drawn at the step that first reads it:   *)
(* the body is bound once and no step reads a field before it is drawn,    *)
(* so the behaviours are those of a body drawn whole on entry.             *)
(*                                                                         *)
(* Two more programs of the repository follow, each under a specification  *)
(* of its own: LazyScryptIdentity.Unwrap (SpecUnwrap) and the CheckToken   *)
(* handler (SpecToken).                                                    *)
(***************************************************************************)
EXTENDS Integers, Sequences, FiniteSets, TLC

\* Bounds of the model.
NumCalls == 2
NumMembers == 1

Calls == 1..NumCalls
Members == 1..NumMembers

\* The users, the rows of file_groups ("g1" with member files, "g0" with
\* none) and a group id with no row.
Owner == "alice"
Users == {"alice", "bob"}
Groups == {"g1", "g0"}
GroupIds == Groups \cup {"gx"}
RecipientLists == {{}, {"alice"}, {"bob"}, {"alice", "bob"}}
Passcodes == {"secret1"}
Pins == {"", "pin123"}
Expiries == {"2025-01-01T00:00:00Z"}

\* A NULL column, the zero time, the empty string, a missing file.
NULL == ""
NullTime == 0
NoUser == ""
NoHash == [alg |-> "", password |-> "", salt |-> 0]
Absent == [kind |-> "absent"]

\* The rows of file_items: Find(`"fileGroupId" = ?`) in the order it
\* returns them.  The handler never writes this table.
FileItems(g) == IF g = "g1" THEN [i \in 1..NumMembers |-> i] ELSE << >>

\* bcrypt.GenerateFromPassword salts: two hashes of one password differ.
GenerateFromPassword(password, salt) ==
    [alg |-> "bcrypt", password |-> password, salt |-> salt]

\* File names in dirpaths.bundle, and filepath.Join / filepath.Base on them.
\* A path is its directory and its base name; an object key has no directory.
ZipName(g) == g \o ".zip"
AgeName(g) == g \o ".zip.age"
Names == {ZipName(g) : g \in Groups} \cup {AgeName(g) : g \in Groups}
Join(dir, name) == [dir |-> dir, base |-> name]
Base(path) == [dir |-> "", base |-> path.base]
BundledPath == "bundle"
NoPath == [dir |-> "", base |-> ""]

VARIABLES
    fileGroups,   \* table file_groups: group id -> row
    userKeys,     \* table user_keys: the users with a registered public key
    shortLinks,   \* table of access credentials minted by MakeNewCode
    uploadFiles,  \* dirpaths.upload: member -> file | Absent
    bundleFiles,  \* dirpaths.bundle: name -> file | Absent
    objects,      \* the S3 bucket: key -> content | Absent
    clock,        \* time.Now()
    pc,           \* each request's place in the handler
    loc,          \* each request's local variables
    resp,         \* each request's response
    worker,       \* each request's migration goroutine
    unwrap,       \* a call of LazyScryptIdentity.Unwrap
    accessTokens, \* table access_tokens, in the order of its primary key
    check         \* a request through the CheckToken handler

vars == <<fileGroups, userKeys, shortLinks, uploadFiles, bundleFiles, objects,
          clock, pc, loc, resp, worker, unwrap, accessTokens, check>>

\* The state of the bundling pipeline, and the state apart from it.
bundle == <<fileGroups, userKeys, shortLinks, uploadFiles, bundleFiles, objects,
            pc, loc, resp, worker>>
apart == <<unwrap, accessTokens, check>>

shared == <<fileGroups, userKeys, shortLinks, uploadFiles, bundleFiles, objects>>

\* A member's source file in dirpaths.upload, as the upload left it.
Uploaded(m) == [kind |-> "upload", content |-> m]

\* models.FileGroup, as a row and as the handler's struct.
FileGroup(id, owner) ==
    [ID |-> id, UserId |-> owner, BundledAt |-> NullTime, ExpiredAt |-> NULL,
     ArchivePasscode |-> NoHash, FileKey |-> NoPath, SharedToUserIds |-> {}]

NoLoc == [grp |-> "", userId |-> NoUser, fileGroup |-> FileGroup("", NoUser),
          userIds |-> {}, userPubKeys |-> {}, passcode |-> "",
          idx |-> 0, incl |-> {}, skip |-> {}]
NoWorker == [pc |-> "idle", filePath |-> NoPath,
             fileGroup |-> FileGroup("", NoUser), file |-> Absent]
NoResp == [status |-> 0, message |-> ""]

\* No call of Unwrap and no request to CheckToken under way.
NoUnwrap == [pc |-> "idle", stanzas |-> << >>, Passphrase |-> [pass |-> "", err |-> ""],
             i |-> 0, prompts |-> 0, pass |-> "", fileKey |-> "", err |-> ""]
NoCheck == [pc |-> "idle", Authorization |-> << >>, bearer |-> << >>,
            acct |-> [Token |-> << >>, TokenExpiredAt |-> 0], now |-> 0,
            status |-> 0]

InitBundle ==
    /\ fileGroups = [g \in Groups |-> FileGroup(g, Owner)]
    /\ userKeys \in {Users, {"bob"}}
    /\ shortLinks = {}
    /\ uploadFiles = [m \in Members |-> Uploaded(m)]
    /\ bundleFiles = [n \in Names |-> Absent]
    /\ objects = [n \in Names |-> Absent]
    /\ clock = 1
    /\ pc = [c \in Calls |-> "idle"]
    /\ loc = [c \in Calls |-> NoLoc]
    /\ resp = [c \in Calls |-> NoResp]
    /\ worker = [c \in Calls |-> NoWorker]

Init ==
    /\ InitBundle
    /\ unwrap = NoUnwrap
    /\ accessTokens = << >>
    /\ check = NoCheck

\* c.AbortWithStatusJSON / c.JSON followed by return: the response is sent
\* and the handler's variables go out of scope.  The record keeps which
\* group the request named and which members it incorporated and skipped.
Respond(c, r) ==
    /\ resp' = [resp EXCEPT ![c] = r]
    /\ pc' = [pc EXCEPT ![c] = "done"]
    /\ loc' = [loc EXCEPT ![c] = [NoLoc EXCEPT !.grp = loc[c].grp,
                                               !.incl = loc[c].incl,
                                               !.skip = loc[c].skip]]

Failure(code, message) == [status |-> code, message |-> message]

\* Lines 37-62: authentication, body binding and the passcode hash.
Begin(c) ==
    /\ pc[c] = "idle"
    /\ UNCHANGED apart
    /\ UNCHANGED <<shared, clock, worker>>
    /\ \E entry \in {"unauthenticated", "invalid", "toolong", "ok"} :
        CASE entry = "unauthenticated" ->
                Respond(c, Failure(403, "Unauthorized request"))
          [] entry = "invalid" ->
                Respond(c, Failure(400, "Invalid body request"))
          [] entry = "toolong" ->
                Respond(c, Failure(400, "Unable to process password"))
          [] OTHER ->
                \E who \in Users, g \in GroupIds :
                    /\ loc' = [loc EXCEPT ![c] = [NoLoc EXCEPT !.grp = g, !.userId = who]]
                    /\ pc' = [pc EXCEPT ![c] = "fetch"]
                    /\ UNCHANGED resp

\* The fetch without its "bundledAt" IS NULL condition.
OwnedAny(g, who) ==
    {x \in Groups : x = g /\ fileGroups[x].UserId = who}

\* Lines 66-70: the rows the conditional fetch matches.
OwnedUnbundled(g, who) ==
    {x \in Groups : /\ x = g
                    /\ fileGroups[x].UserId = who
                    /\ fileGroups[x].BundledAt = NullTime}

\* Line 72: res.Error != nil || res.RowsAffected <= 0.
GroupMissing(dbError, rowsAffected) == dbError \/ rowsAffected <= 0

\* Lines 66-78.
FetchGroup(c) ==
    /\ pc[c] = "fetch"
    /\ UNCHANGED apart
    /\ UNCHANGED <<shared, clock, worker>>
    /\ \E dbError \in BOOLEAN :
        IF GroupMissing(dbError, Cardinality(OwnedUnbundled(loc[c].grp, loc[c].userId)))
        THEN Respond(c, Failure(500, "Invalid file group"))
        ELSE /\ loc' = [loc EXCEPT ![c].fileGroup = fileGroups[loc[c].grp]]
             /\ pc' = [pc EXCEPT ![c] = "items"]
             /\ UNCHANGED resp

\* The test of line 82 with < for <=.
ItemsMissingStrict(dbError, rowsAffected) == dbError \/ rowsAffected < 0

\* Line 82: res.Error != nil || res.RowsAffected <= 0.
ItemsMissing(dbError, rowsAffected) == dbError \/ rowsAffected <= 0

\* Lines 80-88.
FetchItems(c) ==
    /\ pc[c] = "items"
    /\ UNCHANGED apart
    /\ UNCHANGED <<shared, clock, worker>>
    /\ \E dbError \in BOOLEAN :
        IF ItemsMissing(dbError, Len(FileItems(loc[c].fileGroup.ID)))
        THEN Respond(c, Failure(500, "Empty file group"))
        ELSE /\ pc' = [pc EXCEPT ![c] = "create"]
             /\ UNCHANGED <<loc, resp>>

\* item.Realname, the name of a member's entry in the archive.
Realname(m) == <<"real", m>>

\* os.Create: a new empty file, or the file at that name truncated; the
\* caller holds a descriptor of it until it closes it.
OsCreate(file, c) ==
    IF file = Absent
    THEN [kind |-> "zip", entries |-> {}, writers |-> {c}]
    ELSE [kind |-> "zip", entries |-> {}, writers |-> file.writers \cup {c}]

\* A write through c's descriptor: it reaches the file at that name unless
\* the name was unlinked, or unlinked and created again, since c opened it.
WriteEntries(file, c, entries) ==
    IF file # Absent /\ c \in file.writers
    THEN [file EXCEPT !.entries = @ \cup entries]
    ELSE file

\* zipCompressor.Close and the end of c's descriptor.
CloseWriter(file, c) ==
    IF file # Absent /\ c \in file.writers
    THEN [file EXCEPT !.writers = @ \ {c}]
    ELSE file

\* Lines 102-118: the users whose keys the lookup returns.  The requester
\* is added to the ids of the body; an error of Find leaves no rows.
UserShares(ids, who) == IF Cardinality(ids) > 0 THEN ids \cup {who} ELSE {}
FoundKeys(ids, who, dbError) ==
    IF dbError THEN {} ELSE {u \in UserShares(ids, who) : u \in userKeys}

\* key.Public of a user's row of user_keys.
Public(u) == [recipient |-> "age1", of |-> u]

\* Lines 90-118: the destination container, then the recipients' keys.
CreateZip(c) ==
    /\ pc[c] = "create"
    /\ UNCHANGED apart
    /\ UNCHANGED <<fileGroups, userKeys, shortLinks, uploadFiles, objects, clock, worker>>
    /\ \E createError \in BOOLEAN :
        IF createError
        THEN /\ Respond(c, Failure(500, "Unable to bundle files:create"))
             /\ UNCHANGED bundleFiles
        ELSE \E ids \in RecipientLists, passcode \in Passcodes :
             \E dbError \in {FALSE} \cup {Cardinality(ids) > 0} :
             LET name == ZipName(loc[c].fileGroup.ID)
                 found == FoundKeys(ids, loc[c].userId, dbError)
             IN  /\ bundleFiles' = [bundleFiles EXCEPT ![name] = OsCreate(@, c)]
                 /\ loc' = [loc EXCEPT
                        ![c].userIds = ids,
                        ![c].passcode = passcode,
                        ![c].userPubKeys = {Public(u) : u \in found},
                        ![c].fileGroup.SharedToUserIds = @ \cup found,
                        ![c].idx = 1]
                 /\ pc' = [pc EXCEPT ![c] = "zip"]
                 /\ UNCHANGED resp

\* Lines 133-145: the entry a pass through the loop body leaves in the
\* archive.  Encrypt writes the entry's header, so a copy that fails leaves
\* the entry with what was copied.
EntryOf(m, outcome) ==
    CASE outcome = "ok" -> {<<Realname(m), "full">>}
      [] outcome = "copyfail" -> {<<Realname(m), "partial">>}
      [] OTHER -> {}

\* The loop body removing the source whenever it was opened.
RemovesOpened(outcome) == outcome \in {"ok", "copyfail"}

\* Lines 126-148: every failure continues before os.Remove is reached.
Removes(outcome) == outcome = "ok"

\* Lines 122-149, one member: what a pass through the loop body does to the
\* archive, to the source file and to the request's record of both.
ZipEffect(c, m, outcome) ==
    LET name == ZipName(loc[c].fileGroup.ID) IN
    /\ bundleFiles' = IF EntryOf(m, outcome) = {} THEN bundleFiles
                      ELSE [bundleFiles EXCEPT
                               ![name] = WriteEntries(@, c, EntryOf(m, outcome))]
    /\ uploadFiles' = IF Removes(outcome)
                      THEN [uploadFiles EXCEPT ![m] = Absent]
                      ELSE uploadFiles
    /\ loc' = [loc EXCEPT
           ![c].idx = @ + 1,
           ![c].incl = IF outcome = "ok" THEN @ \cup {m} ELSE @,
           ![c].skip = IF outcome = "ok" THEN @ ELSE @ \cup {m}]

\* Lines 122-149: os.Open, Encrypt (which writes the entry's header),
\* io.Copy, and on success os.Remove.
ZipItem(c) ==
    /\ pc[c] = "zip"
    /\ loc[c].idx <= Len(FileItems(loc[c].fileGroup.ID))
    /\ UNCHANGED apart
    /\ UNCHANGED <<fileGroups, userKeys, shortLinks, objects, clock, worker, pc, resp>>
    /\ \E outcome \in {"ok", "openfail", "encryptfail", "copyfail"} :
        LET m == FileItems(loc[c].fileGroup.ID)[loc[c].idx] IN
        /\ uploadFiles[m] = Absent => outcome = "openfail"
        /\ ZipEffect(c, m, outcome)

\* Lines 151-154.
CloseZip(c) ==
    /\ pc[c] = "zip"
    /\ loc[c].idx > Len(FileItems(loc[c].fileGroup.ID))
    /\ UNCHANGED apart
    /\ UNCHANGED <<fileGroups, userKeys, shortLinks, uploadFiles, objects, clock, worker, resp>>
    /\ LET name == ZipName(loc[c].fileGroup.ID) IN
        /\ bundleFiles' = [bundleFiles EXCEPT ![name] = CloseWriter(@, c)]
        /\ loc' = [loc EXCEPT ![c].fileGroup.FileKey = Join(BundledPath, name)]
        /\ pc' = [pc EXCEPT ![c] =
               IF Cardinality(loc[c].userPubKeys) > 0 THEN "wrap" ELSE "persist"]

\* age_encryption.EncryptFile(src, destDir, keys): the envelope it writes
\* beside the archive, holding what the archive holds as it is read.
EncryptFile(file, keys) ==
    [kind |-> "age", entries |-> file.entries, recipients |-> keys,
     complete |-> file.writers = {}, writers |-> {}]

\* Lines 157-169: the recipient wrap, and the removal of the plain archive.
Wrap(c) ==
    /\ pc[c] = "wrap"
    /\ UNCHANGED apart
    /\ UNCHANGED <<fileGroups, userKeys, shortLinks, uploadFiles, objects, clock, worker>>
    /\ \E encryptError \in BOOLEAN :
        LET g == loc[c].fileGroup.ID IN
        IF encryptError \/ bundleFiles[ZipName(g)] = Absent
        THEN /\ Respond(c, Failure(500, "Unable to encrypt the file"))
             /\ UNCHANGED bundleFiles
        ELSE /\ bundleFiles' = [bundleFiles EXCEPT
                    ![AgeName(g)] = EncryptFile(bundleFiles[ZipName(g)], loc[c].userPubKeys),
                    ![ZipName(g)] = Absent]
             /\ loc' = [loc EXCEPT ![c].fileGroup.FileKey = Join(BundledPath, AgeName(g))]
             /\ pc' = [pc EXCEPT ![c] = "persist"]
             /\ UNCHANGED resp

\* db.Save: UPDATE ... WHERE id = ?, every column written from the struct.
Save(table, row) == [table EXCEPT ![row.ID] = row]

\* Line 185 reads err.Error() of the nil error time.Parse returned for a
\* body that passed the datetime binding: the handler panics there.
Panicked == [status |-> 0, message |-> "panic: nil pointer dereference"]

\* The handler going on after a failed Save.
SaveFailedIgnored(dbError, rowsAffected) == FALSE

\* Line 182: res.Error != nil || res.RowsAffected <= 0.
SaveFailed(dbError, rowsAffected) == dbError \/ rowsAffected <= 0

\* Lines 171-216: the update of the group, and on success the goroutine.
Persist(c) ==
    /\ pc[c] = "persist"
    /\ UNCHANGED apart
    /\ UNCHANGED <<userKeys, shortLinks, uploadFiles, bundleFiles, objects>>
    /\ clock' = clock + 1
    /\ \E expiredAt \in Expiries, saveError \in BOOLEAN :
        LET row == [loc[c].fileGroup EXCEPT
                       !.ArchivePasscode = GenerateFromPassword(loc[c].passcode, c),
                       !.BundledAt = clock,
                       !.ExpiredAt = expiredAt]
            rows == IF saveError THEN 0 ELSE 1
        IN  /\ fileGroups' = IF saveError THEN fileGroups ELSE Save(fileGroups, row)
            /\ IF SaveFailed(saveError, rows)
               THEN /\ Respond(c, Panicked)
                    /\ UNCHANGED worker
               ELSE
                 /\ worker' = [worker EXCEPT ![c] =
                        [pc |-> "open", filePath |-> row.FileKey,
                         fileGroup |-> row, file |-> Absent]]
                 /\ loc' = [loc EXCEPT ![c].fileGroup = row]
                 /\ pc' = [pc EXCEPT ![c] = "mint"]
                 /\ UNCHANGED resp

\* shortlink.MakeURL.
MakeURL(code) == [site |-> "https://host/d/", code |-> code]

\* The handler undoing the update of the group when the pin hash or the
\* credential fails.
MintRollback(c) ==
    /\ pc[c] = "mint"
    /\ UNCHANGED apart
    /\ UNCHANGED <<userKeys, uploadFiles, bundleFiles, objects, clock, worker>>
    /\ \E downloadPassword \in Pins, outcome \in {"ok", "hashError", "linkError"} :
        LET pinCode == IF downloadPassword # ""
                       THEN GenerateFromPassword(downloadPassword, c) ELSE NoHash
            g == loc[c].fileGroup.ID
        IN  IF (downloadPassword # "" /\ outcome = "hashError") \/ outcome = "linkError"
            THEN /\ Respond(c, Failure(500, "Unable to create download link"))
                 /\ fileGroups' = Save(fileGroups, FileGroup(g, loc[c].fileGroup.UserId))
                 /\ UNCHANGED shortLinks
            ELSE /\ shortLinks' = shortLinks \cup
                        {[code |-> c, fileGroupId |-> g, pin |-> pinCode]}
                 /\ Respond(c, [status |-> 201, message |-> "",
                                expiredAt |-> loc[c].fileGroup.ExpiredAt,
                                downloadUrl |-> MakeURL(c)])
                 /\ UNCHANGED fileGroups

\* Lines 218-249: the pin hash, the credential and the response.
Mint(c) ==
    /\ pc[c] = "mint"
    /\ UNCHANGED apart
    /\ UNCHANGED <<fileGroups, userKeys, uploadFiles, bundleFiles, objects, clock, worker>>
    /\ \E downloadPassword \in Pins, outcome \in {"ok", "hashError", "linkError"} :
        LET pinCode == IF downloadPassword # ""
                       THEN GenerateFromPassword(downloadPassword, c) ELSE NoHash
        IN  IF downloadPassword # "" /\ outcome = "hashError"
            THEN /\ Respond(c, Failure(500, "Unable to bundle files:bcrypt"))
                 /\ UNCHANGED shortLinks
            ELSE IF outcome = "linkError"
            THEN /\ Respond(c, Failure(500, "Unable to create download link"))
                 /\ UNCHANGED shortLinks
            ELSE /\ shortLinks' = shortLinks \cup
                        {[code |-> c, fileGroupId |-> loc[c].fileGroup.ID, pin |-> pinCode]}
                 /\ Respond(c, [status |-> 201, message |-> "",
                                expiredAt |-> loc[c].fileGroup.ExpiredAt,
                                downloadUrl |-> MakeURL(c)])

WorkerDone == [NoWorker EXCEPT !.pc = "done"]

\* Lines 191-197.
WorkerOpen(c) ==
    /\ worker[c].pc = "open"
    /\ UNCHANGED apart
    /\ UNCHANGED <<shared, clock, pc, loc, resp>>
    /\ \E openError \in BOOLEAN :
        LET file == bundleFiles[worker[c].filePath.base] IN
        IF openError \/ file = Absent
        THEN worker' = [worker EXCEPT ![c] = WorkerDone]
        ELSE worker' = [worker EXCEPT ![c].pc = "put", ![c].file = file]

\* What the open descriptor reads: the file at that name, or, once the name
\* is unlinked, the file as it was opened.
ReadOpen(name, opened) ==
    IF bundleFiles[name] # Absent THEN bundleFiles[name] ELSE opened

\* Lines 199-204 and 215.
WorkerPut(c) ==
    /\ worker[c].pc = "put"
    /\ UNCHANGED apart
    /\ UNCHANGED <<fileGroups, userKeys, shortLinks, uploadFiles, bundleFiles, clock, pc, loc, resp>>
    /\ \E putError \in BOOLEAN :
        LET keyName == Base(worker[c].filePath) IN
        IF putError
        THEN /\ worker' = [worker EXCEPT ![c] = WorkerDone]
             /\ UNCHANGED objects
        ELSE /\ objects' = [objects EXCEPT
                    ![keyName.base] = ReadOpen(keyName.base, worker[c].file)]
             /\ worker' = [worker EXCEPT ![c].pc = "save", ![c].file = Absent]

\* Lines 206-208: the result of this Save is not read.
WorkerSave(c) ==
    /\ worker[c].pc = "save"
    /\ UNCHANGED apart
    /\ UNCHANGED <<userKeys, shortLinks, uploadFiles, bundleFiles, objects, clock, pc, loc, resp>>
    /\ \E saveError \in BOOLEAN :
        LET row == [worker[c].fileGroup EXCEPT !.FileKey = Base(worker[c].filePath)] IN
        /\ fileGroups' = IF saveError THEN fileGroups ELSE Save(fileGroups, row)
        /\ worker' = [worker EXCEPT ![c].pc = "remove", ![c].fileGroup = row]

\* Lines 210-212.
WorkerRemove(c) ==
    /\ worker[c].pc = "remove"
    /\ UNCHANGED apart
    /\ UNCHANGED <<fileGroups, userKeys, shortLinks, uploadFiles, objects, clock, pc, loc, resp>>
    /\ bundleFiles' = [bundleFiles EXCEPT ![worker[c].filePath.base] = Absent]
    /\ worker' = [worker EXCEPT ![c] = WorkerDone]

\* The handler joining its goroutine before it goes on to the credential.
HandlerJoined(c) ==
    \/ Begin(c) \/ FetchGroup(c) \/ FetchItems(c) \/ CreateZip(c) \/ ZipItem(c)
    \/ CloseZip(c) \/ Wrap(c) \/ Persist(c)
    \/ (worker[c].pc = "done" /\ Mint(c))

Handler(c) ==
    \/ Begin(c) \/ FetchGroup(c) \/ FetchItems(c) \/ CreateZip(c) \/ ZipItem(c)
    \/ CloseZip(c) \/ Wrap(c) \/ Persist(c) \/ Mint(c)

Migration(c) == WorkerOpen(c) \/ WorkerPut(c) \/ WorkerSave(c) \/ WorkerRemove(c)

Next == \E c \in Calls : Handler(c) \/ Migration(c)

Spec == Init /\ [][Next]_vars

(***************************************************************************)
(* LazyScryptIdentity.Unwrap of package age_encryption: one call, on a     *)
(* list of stanzas and with a Passphrase callback, a step at each place    *)
(* it can return.  A stanza is its type and, for an scrypt stanza, the     *)
(* passphrase its file key was wrapped under and whether the stanza is     *)
(* one ScryptIdentity accepts (well-formed, its work factor in range).     *)
(***************************************************************************)

\* The longest list of stanzas.
MaxStanzas == 3

ScryptStanza(pass, valid) == [Type |-> "scrypt", pass |-> pass, valid |-> valid]
X25519Stanza == [Type |-> "X25519", pass |-> "", valid |-> TRUE]
Stanzas == {ScryptStanza("hunter2", TRUE), ScryptStanza("hunter2", FALSE),
            X25519Stanza}
StanzaLists == UNION {[1..n -> Stanzas] : n \in 0..MaxStanzas}

\* What the Passphrase callback returns when it is called.
Prompts == {[pass |-> "hunter2", err |-> ""], [pass |-> "letmein", err |-> ""],
            [pass |-> "", err |-> ""], [pass |-> "", err |-> "EOF"]}

\* The file key of the stanzas, and the errors by their text.
TheFileKey == "filekey"
ErrIncorrectIdentity == "incorrect identity for recipient block"
ErrOnlyOne == "an scrypt recipient must be the only one"
ErrReadPassphrase(err) == "could not read passphrase: " \o err
ErrIncorrectPassphrase == "incorrect passphrase"
ErrEmptyPassphrase == "passphrase can't be empty"
ErrInvalidStanza == "invalid scrypt recipient block"

\* age.NewScryptIdentity: an empty passphrase is refused.
NewScryptIdentity(password) ==
    IF password = "" THEN [password |-> "", err |-> ErrEmptyPassphrase]
    ELSE [password |-> password, err |-> ""]

\* ScryptIdentity.Unwrap: each stanza in turn; a stanza of another type or
\* a file key that does not open under the passphrase is passed over as
\* ErrIncorrectIdentity, a stanza it cannot accept ends the call.
ScryptUnwrapOne(password, s) ==
    IF s.Type # "scrypt" THEN [fileKey |-> "", err |-> ErrIncorrectIdentity]
    ELSE IF ~s.valid THEN [fileKey |-> "", err |-> ErrInvalidStanza]
    ELSE IF s.pass # password THEN [fileKey |-> "", err |-> ErrIncorrectIdentity]
    ELSE [fileKey |-> TheFileKey, err |-> ""]

RECURSIVE ScryptUnwrap(_, _, _)
ScryptUnwrap(password, stanzas, i) ==
    IF i > Len(stanzas) THEN [fileKey |-> "", err |-> ErrIncorrectIdentity]
    ELSE LET r == ScryptUnwrapOne(password, stanzas[i]) IN
         IF r.err = ErrIncorrectIdentity
         THEN ScryptUnwrap(password, stanzas, i + 1) ELSE r

\* `return fileKey, err`.
Return(fileKey, err) ==
    unwrap' = [unwrap EXCEPT !.pc = "done", !.fileKey = fileKey, !.err = err]

\* The loop without its test.
RejectsNothing(s, n) == FALSE

\* Line 87: s.Type == "scrypt" && len(stanzas) != 1.
Rejects(s, n) == s.Type = "scrypt" /\ n # 1

\* Lines 86-90, one pass of the loop.
UnwrapScan ==
    /\ unwrap.pc = "scan"
    /\ unwrap.i <= Len(unwrap.stanzas)
    /\ UNCHANGED <<bundle, clock, accessTokens, check>>
    /\ IF Rejects(unwrap.stanzas[unwrap.i], Len(unwrap.stanzas))
       THEN Return("", ErrOnlyOne)
       ELSE unwrap' = [unwrap EXCEPT !.i = @ + 1]

\* Line 91: len(stanzas) != 1 || stanzas[0].Type != "scrypt".
NotSoleScrypt(stanzas) == Len(stanzas) # 1 \/ stanzas[1].Type # "scrypt"

\* Lines 91-93, after the loop.
UnwrapCheck ==
    /\ unwrap.pc = "scan"
    /\ unwrap.i > Len(unwrap.stanzas)
    /\ UNCHANGED <<bundle, clock, accessTokens, check>>
    /\ IF NotSoleScrypt(unwrap.stanzas)
       THEN Return("", ErrIncorrectIdentity)
       ELSE unwrap' = [unwrap EXCEPT !.pc = "prompt"]

\* Lines 94-97: the callback is called.
UnwrapPrompt ==
    /\ unwrap.pc = "prompt"
    /\ UNCHANGED <<bundle, clock, accessTokens, check>>
    /\ IF unwrap.Passphrase.err # ""
       THEN unwrap' = [unwrap EXCEPT
               !.pc = "done", !.prompts = @ + 1,
               !.err = ErrReadPassphrase(unwrap.Passphrase.err)]
       ELSE unwrap' = [unwrap EXCEPT
               !.pc = "identity", !.prompts = @ + 1,
               !.pass = unwrap.Passphrase.pass]

\* Lines 98-101.
UnwrapIdentity ==
    /\ unwrap.pc = "identity"
    /\ UNCHANGED <<bundle, clock, accessTokens, check>>
    /\ LET ii == NewScryptIdentity(unwrap.pass) IN
       IF ii.err # ""
       THEN Return("", ii.err)
       ELSE unwrap' = [unwrap EXCEPT !.pc = "delegate"]

\* The error of ScryptIdentity handed on as it is.
ReportedAsIs(err) == err

\* Lines 103-110: errors.Is(err, age.ErrIncorrectIdentity).
Reported(err) ==
    IF err = ErrIncorrectIdentity THEN ErrIncorrectPassphrase ELSE err

\* Lines 102-111.
UnwrapDelegate ==
    /\ unwrap.pc = "delegate"
    /\ UNCHANGED <<bundle, clock, accessTokens, check>>
    /\ LET r == ScryptUnwrap(unwrap.pass, unwrap.stanzas, 1) IN
       Return(IF Reported(r.err) = r.err THEN r.fileKey ELSE "", Reported(r.err))

InitUnwrap ==
    /\ InitBundle
    /\ userKeys = Users
    /\ accessTokens = << >>
    /\ check = NoCheck
    /\ \E stanzas \in StanzaLists, Passphrase \in Prompts :
        unwrap = [NoUnwrap EXCEPT !.pc = "scan", !.i = 1,
                                  !.stanzas = stanzas, !.Passphrase = Passphrase]

NextUnwrap ==
    UnwrapScan \/ UnwrapCheck \/ UnwrapPrompt \/ UnwrapIdentity \/ UnwrapDelegate

SpecUnwrap == InitUnwrap /\ [][NextUnwrap]_vars

(***************************************************************************)
(* CheckToken of package auth: one request through the handler.  The       *)
(* Authorization header is its characters, as net/http hands it over       *)
(* (no space at either end), so that strings.Split is computed.            *)
(***************************************************************************)

\* The longest Authorization header, in characters.
MaxHeader == 4

Chars == {" ", "t", "x"}
Headers ==
    {h \in UNION {[1..n -> Chars] : n \in 0..MaxHeader} :
        Len(h) > 0 => (h[1] # " " /\ h[Len(h)] # " ")}

\* The readings of time.Now(), and the contents of access_tokens: no row,
\* one token, two tokens of which the first has the earlier expiry.
Times == 1..3
AccessToken(token, expiredAt) == [Token |-> token, TokenExpiredAt |-> expiredAt]
TokenTables ==
    {<< >>,
     <<AccessToken(<<"t">>, 2)>>,
     <<AccessToken(<<"x">>, 1), AccessToken(<<"t">>, 2)>>}

\* strings.Split(s, " "): the parts between the spaces, the empty ones too;
\* a string with no space is its only part.
RECURSIVE Split(_)
Split(s) ==
    IF \A i \in 1..Len(s) : s[i] # " " THEN <<s>>
    ELSE LET k == CHOOSE i \in 1..Len(s) :
                      s[i] = " " /\ \A j \in 1..(i - 1) : s[j] # " "
         IN  <<SubSeq(s, 1, k - 1)>> \o Split(SubSeq(s, k + 1, Len(s)))

\* db.Where(&models.AccessToken{Token: bearer}): a struct condition is built
\* from the struct's non-zero fields, so an empty bearer is no condition.
Where(table, bearer) ==
    IF bearer = << >> THEN 1..Len(table)
    ELSE {i \in 1..Len(table) : table[i].Token = bearer}

\* .First(&acct): the matching row with the least primary key.
First(table, rows) ==
    IF rows = {} THEN [RowsAffected |-> 0, acct |-> NoCheck.acct]
    ELSE [RowsAffected |-> 1,
          acct |-> table[CHOOSE i \in rows : \A j \in rows : i <= j]]

\* c.AbortWithStatusJSON(http.StatusUnauthorized, ...) and c.JSON(200, ...).
Answer(status) == check' = [check EXCEPT !.pc = "done", !.status = status]

\* Lines 19-35: the header bound and split.
CheckBind ==
    /\ check.pc = "bind"
    /\ UNCHANGED <<bundle, clock, unwrap, accessTokens>>
    /\ \E bindError \in BOOLEAN :
        LET bearers == Split(check.Authorization) IN
        IF bindError \/ Len(bearers) <= 1
        THEN Answer(401)
        ELSE check' = [check EXCEPT !.pc = "lookup", !.bearer = bearers[2]]

\* Lines 37-51: the row of the token.
CheckLookup ==
    /\ check.pc = "lookup"
    /\ UNCHANGED <<bundle, clock, unwrap, accessTokens>>
    /\ \E dbError \in BOOLEAN :
        LET res == First(accessTokens,
                         IF dbError THEN {} ELSE Where(accessTokens, check.bearer))
        IN  IF res.RowsAffected <= 0
            THEN Answer(401)
            ELSE check' = [check EXCEPT !.pc = "expiry", !.acct = res.acct]

\* Line 53: TokenExpiredAt.Before(now).
Before(t, u) == t < u

\* Lines 53-63: the expiry against time.Now(), and the answer.
CheckExpiry ==
    /\ check.pc = "expiry"
    /\ UNCHANGED <<bundle, clock, unwrap, accessTokens>>
    /\ \E now \in Times :
        check' = [check EXCEPT
            !.pc = "done", !.now = now,
            !.status = IF Before(check.acct.TokenExpiredAt, now) THEN 401 ELSE 200]

InitToken ==
    /\ InitBundle
    /\ userKeys = Users
    /\ unwrap = NoUnwrap
    /\ accessTokens \in TokenTables
    /\ \E h \in Headers : check = [NoCheck EXCEPT !.pc = "bind", !.Authorization = h]

NextToken == CheckBind \/ CheckLookup \/ CheckExpiry

SpecToken == InitToken /\ [][NextToken]_vars

(***************************************************************************)
(* The claims.                                                             *)
(***************************************************************************)

Created(c) == resp[c].status = 201
InvalidGroup == Failure(500, "Invalid file group")
EmptyGroup == Failure(500, "Empty file group")
ArchiveIOError == Failure(500, "Unable to bundle files:create")
EncryptionError == Failure(500, "Unable to encrypt the file")
Alone(c) == \A d \in Calls \ {c} : pc[d] = "idle"
InitialGroups == [g \in Groups |-> FileGroup(g, Owner)]
InitialUploads == [m \in Members |-> Uploaded(m)]
LinksOf(g) == {l \in shortLinks : l.fileGroupId = g}

\* C1: among the BundleGroup calls on one group with member files, at most
\* one is answered created.
C1_AtMostOneCreated ==
    \A g \in Groups :
        Len(FileItems(g)) >= 1 =>
            Cardinality({c \in Calls : Created(c) /\ loc[c].grp = g}) <= 1

\* C2: once a group is persisted as bundled, no step changes its bundled-at
\* time, passcode hash, expiry or recipient list, and its locator changes
\* only from the local path to that path's base name, the remote key.
C2_BundledFieldsFrozen ==
    [][\A g \in Groups :
          fileGroups[g].BundledAt # NullTime =>
            /\ fileGroups'[g].BundledAt = fileGroups[g].BundledAt
            /\ fileGroups'[g].ArchivePasscode = fileGroups[g].ArchivePasscode
            /\ fileGroups'[g].ExpiredAt = fileGroups[g].ExpiredAt
            /\ fileGroups'[g].SharedToUserIds = fileGroups[g].SharedToUserIds
            /\ \/ fileGroups'[g].FileKey = fileGroups[g].FileKey
               \/ /\ fileGroups[g].FileKey.dir = BundledPath
                  /\ fileGroups'[g].FileKey = Base(fileGroups[g].FileKey)]_vars

\* The group a request names has no row, has another owner or is bundled.
Ineligible(c) ==
    \/ loc[c].grp \notin Groups
    \/ /\ loc[c].grp \in Groups
       /\ \/ fileGroups[loc[c].grp].UserId # loc[c].userId
          \/ fileGroups[loc[c].grp].BundledAt # NullTime

\* C3: a call whose group does not exist, is not owned by the requester or
\* is already bundled when it is fetched is answered InvalidGroup, and that
\* step changes no table, no file and no object and starts no worker; a
\* call answered InvalidGroup has no worker and no credential.
C3_InvalidGroupChangesNothing ==
    /\ [][\A c \in Calls :
            (pc[c] = "fetch" /\ pc'[c] # "fetch" /\ Ineligible(c)) =>
                /\ resp'[c] = InvalidGroup
                /\ pc'[c] = "done"
                /\ UNCHANGED shared
                /\ worker' = worker]_vars
    /\ [](\A c \in Calls :
            resp[c] = InvalidGroup =>
                /\ pc[c] = "done"
                /\ worker[c] = NoWorker
                /\ \A l \in shortLinks : l.code # c)

\* A call was answered InvalidGroup for a group another call had bundled.
C3_Witness ==
    \E c, d \in Calls :
        /\ resp[c] = InvalidGroup
        /\ Created(d)
        /\ loc[c].grp = loc[d].grp
        /\ fileGroups[loc[c].grp].BundledAt # NullTime
        /\ clock = 2

\* C4: a call on an owned, unbundled group with no member files is answered
\* EmptyGroup by a step that changes no table, file or object and starts no
\* worker; a group with no member files has no archive, stays unbundled and
\* has no credential, and the call answered EmptyGroup has no worker.
C4_EmptyGroupNoAction ==
    /\ [][\A c \in Calls :
            (pc[c] = "items" /\ pc'[c] # "items"
                /\ Len(FileItems(loc[c].fileGroup.ID)) = 0) =>
                /\ resp'[c] = EmptyGroup
                /\ pc'[c] = "done"
                /\ UNCHANGED shared
                /\ worker' = worker]_vars
    /\ [](\A c \in Calls :
            (resp[c] = EmptyGroup /\ Len(FileItems(loc[c].grp)) = 0) =>
                /\ pc[c] = "done"
                /\ worker[c] = NoWorker
                /\ bundleFiles[ZipName(loc[c].grp)] = Absent
                /\ bundleFiles[AgeName(loc[c].grp)] = Absent
                /\ fileGroups[loc[c].grp].BundledAt = NullTime
                /\ LinksOf(loc[c].grp) = {})

\* A call on the group with no member files was answered EmptyGroup.
C4_Witness ==
    \E c \in Calls :
        /\ resp[c] = EmptyGroup
        /\ loc[c].grp = "g0"
        /\ pc[c] = "done"

\* C5: a call that aborts before the persistence step, with the container
\* not created or the wrap failed, leaves the group rows and the member
\* source files as they were before it (here, with no other call begun, as
\* they were initially).
C5_AbortBeforePersistMutatesNothing ==
    \A c \in Calls :
        (resp[c] \in {ArchiveIOError, EncryptionError} /\ Alone(c)) =>
            /\ fileGroups = InitialGroups
            /\ uploadFiles = InitialUploads

C7_MigrationOutcome ==
    [][\A c \in Calls :
          (worker[c].pc # "done" /\ worker'[c].pc = "done") =>
            LET g == worker[c].fileGroup.ID
                path == worker[c].filePath
            IN  IF worker[c].pc = "remove"
                THEN /\ fileGroups'[g].FileKey = Base(path)
                     /\ bundleFiles'[path.base] = Absent
                ELSE /\ fileGroups' = fileGroups
                     /\ bundleFiles' = bundleFiles]_vars

\* C8: the archive a call has closed holds one entry, whole, for each member
\* it read in full, and no other entry (here, with no other call begun).
C8_ArchiveHoldsExactlyTheRead ==
    \A c \in Calls :
        (pc[c] \in {"wrap", "persist"} /\ Alone(c)) =>
            LET file == bundleFiles[loc[c].fileGroup.FileKey.base] IN
            file.entries = {<<Realname(m), "full">> : m \in loc[c].incl}

C10_OwnerKeyIncluded ==
    [][\A c \in Calls :
          (resp'[c].status = 201 /\ resp[c].status # 201
              /\ loc[c].userIds # {} /\ loc[c].userPubKeys # {}) =>
            Public(loc[c].userId) \in loc[c].userPubKeys]_vars

\* C11: a call with a non-empty recipient list that is answered created has
\* persisted the wrapped artifact's path as the locator, and (with no other
\* call begun) the plain archive is then gone; and the step of a call that
\* removes the plain archive leaves the wrapped form of what it held.
C11_RecipientsGetWrappedArtifact ==
    /\ [][\A c \in Calls :
            (resp'[c].status = 201 /\ resp[c].status # 201
                /\ loc[c].userIds # {}) =>
                /\ loc[c].fileGroup.FileKey = Join(BundledPath, AgeName(loc[c].grp))
                /\ Alone(c) => bundleFiles[ZipName(loc[c].grp)] = Absent]_vars
    /\ [][\A c \in Calls :
            (/\ pc[c] = "wrap" /\ pc'[c] # "wrap"
             /\ bundleFiles[ZipName(loc[c].grp)] # Absent
             /\ bundleFiles'[ZipName(loc[c].grp)] = Absent) =>
                /\ bundleFiles'[AgeName(loc[c].grp)] # Absent
                /\ bundleFiles'[AgeName(loc[c].grp)].entries
                       = bundleFiles[ZipName(loc[c].grp)].entries]_vars

\* C12: a call with no recipient ids never reaches the wrap, and when it
\* persists the group the locator it writes is the path of the passcode-only
\* archive and that archive is there, in the bundle directory.
C12_NoRecipientsKeepsPlainArchive ==
    /\ [](\A c \in Calls :
            (pc[c] \in {"zip", "wrap", "persist", "mint"} /\ loc[c].userIds = {}) =>
                pc[c] # "wrap")
    /\ [][\A c \in Calls :
            (pc[c] = "persist" /\ pc'[c] = "mint" /\ loc[c].userIds = {}) =>
                /\ fileGroups'[loc[c].grp].FileKey
                       = Join(BundledPath, ZipName(loc[c].grp))
                /\ bundleFiles'[ZipName(loc[c].grp)] # Absent]_vars

\* C13: a call whose update of the group fails ends at that step with a
\* server-error response carrying a message, its worker not started and no
\* credential minted for it.
C13_PersistenceConflictSurfaced ==
    [][\A c \in Calls :
          (pc[c] = "persist" /\ pc'[c] = "done") =>
            /\ resp'[c].status = 500
            /\ resp'[c].message \notin {"", Panicked.message}
            /\ worker'[c] = NoWorker
            /\ \A l \in shortLinks' : l.code # c]_vars

PinHashError == Failure(500, "Unable to bundle files:bcrypt")
LinkError == Failure(500, "Unable to create download link")

\* C14: a call whose pin hash or credential fails, after its update of the
\* group succeeded, is answered with a failure by a step that changes no
\* row and mints nothing; its group is bundled then and ever after, with a
\* locator, a passcode hash and an expiry, and (with no other call begun)
\* these are the ones the call persisted, the locator's path or its base.
C14_MintFailureLeavesGroupBundled ==
    /\ [][\A c \in Calls :
            (pc[c] = "mint" /\ pc'[c] = "done" /\ resp'[c].status # 201) =>
                /\ resp'[c] \in {PinHashError, LinkError}
                /\ fileGroups' = fileGroups
                /\ shortLinks' = shortLinks
                /\ fileGroups[loc[c].grp].BundledAt # NullTime
                /\ Alone(c) =>
                    LET row == fileGroups[loc[c].grp]
                        mine == loc[c].fileGroup
                    IN  /\ row.BundledAt = mine.BundledAt
                        /\ row.ArchivePasscode = mine.ArchivePasscode
                        /\ row.ExpiredAt = mine.ExpiredAt
                        /\ row.FileKey \in {mine.FileKey, Base(mine.FileKey)}]_vars
    /\ [](\A c \in Calls :
            resp[c] \in {PinHashError, LinkError} =>
                LET row == fileGroups[loc[c].grp] IN
                /\ row.BundledAt # NullTime
                /\ row.FileKey # NoPath
                /\ row.ArchivePasscode # NoHash
                /\ row.ExpiredAt # NULL
                /\ \A l \in shortLinks : l.code # c)

\* Both failures after persistence have happened: a call answered with the
\* pin-hash failure and a call answered with the credential failure, their
\* group bundled.
C14_Witness ==
    \E c, d \in Calls :
        /\ resp[c] = PinHashError
        /\ resp[d] = LinkError
        /\ fileGroups[loc[c].grp].BundledAt # NullTime
        /\ fileGroups[loc[d].grp].BundledAt # NullTime

\* C15: a call past its persistence step can always take its next step,
\* whatever its worker is doing; the step that answers created sets the
\* status, the expiry the call persisted and the URL of the code it minted;
\* and no step of a worker changes a response or a handler's place.
C15_ResponseDoesNotAwaitWorker ==
    /\ [](\A c \in Calls : pc[c] = "mint" => ENABLED Handler(c))
    /\ [][\A c \in Calls :
            (pc[c] = "mint" /\ resp'[c].status = 201) =>
                resp'[c] = [status |-> 201, message |-> "",
                            expiredAt |-> loc[c].fileGroup.ExpiredAt,
                            downloadUrl |-> MakeURL(c)]]_vars
    /\ [][(\E c \in Calls : worker[c].pc # "idle" /\ worker'[c] # worker[c]) =>
            (resp' = resp /\ pc' = pc /\ loc' = loc)]_vars

\* One call was answered created after its worker had ended, another while
\* its worker had not taken a step.
C15_Witness ==
    \E c, d \in Calls :
        /\ Created(c) /\ worker[c].pc = "open"
        /\ Created(d) /\ worker[d].pc = "done"

\* The artifacts that hold a member's content whole: the files of the
\* bundle directory and the objects of the bucket.
Holds(file, m) == file # Absent /\ <<Realname(m), "full">> \in file.entries

\* C18: in every state, each member's content is in its source file in
\* upload storage or is a whole entry of a file of the bundle directory or
\* of an object of the bucket.
C18_NoMemberContentLost ==
    \A m \in Members :
        \/ uploadFiles[m] = Uploaded(m)
        \/ \E n \in Names : Holds(bundleFiles[n], m) \/ Holds(objects[n], m)

\* What a locator refers to: a file of the bundle directory when it is a
\* path, an object of the bucket when it is a key.
Located(key) ==
    IF key.dir = BundledPath THEN bundleFiles[key.base] # Absent
    ELSE key.base \in Names /\ objects[key.base] # Absent

\* C19: in every state, the locator of a group persisted as bundled refers
\* to a file that is present or to an object that was uploaded.
C19_LocatorRefersToArtifact ==
    \A g \in Groups :
        fileGroups[g].BundledAt # NullTime => Located(fileGroups[g].FileKey)

\* The stanza lists of the claims about Unwrap.
SoleScrypt(stanzas) == Len(stanzas) = 1 /\ stanzas[1].Type = "scrypt"
HasScrypt(stanzas) == \E i \in 1..Len(stanzas) : stanzas[i].Type = "scrypt"

\* C16: Unwrap calls the Passphrase callback, once, exactly when the list
\* is one stanza of type scrypt; a list with an scrypt stanza and any other
\* stanza ends with the only-one error and no call of the callback; a list
\* with no scrypt stanza, the empty list too, ends with ErrIncorrectIdentity
\* and no call of the callback.
C16_PromptOnlyForSoleScrypt ==
    /\ unwrap.prompts > 0 => (SoleScrypt(unwrap.stanzas) /\ unwrap.prompts = 1)
    /\ unwrap.pc = "done" =>
        IF SoleScrypt(unwrap.stanzas) THEN unwrap.prompts = 1
        ELSE IF HasScrypt(unwrap.stanzas)
        THEN unwrap.err = ErrOnlyOne /\ unwrap.fileKey = "" /\ unwrap.prompts = 0
        ELSE unwrap.err = ErrIncorrectIdentity /\ unwrap.fileKey = ""
                /\ unwrap.prompts = 0

\* Unwrap has ended on a list whose scrypt stanza comes after a stanza of
\* another type, with the only-one error.
C16_Witness ==
    /\ unwrap.pc = "done"
    /\ Len(unwrap.stanzas) = 2
    /\ unwrap.stanzas[1].Type = "X25519"
    /\ unwrap.stanzas[2].Type = "scrypt"
    /\ unwrap.err = ErrOnlyOne

\* C17, as claimed: on a sole scrypt stanza, a passphrase other than the
\* stanza's ends with the incorrect-passphrase error, a failure of the
\* callback with the could-not-read error, and the stanza's passphrase with
\* the file key and no error.
C17_PassphraseErrorsAsClaimed ==
    (unwrap.pc = "done" /\ SoleScrypt(unwrap.stanzas)) =>
        IF unwrap.Passphrase.err # ""
        THEN unwrap.err = ErrReadPassphrase(unwrap.Passphrase.err)
        ELSE IF unwrap.Passphrase.pass # unwrap.stanzas[1].pass
        THEN unwrap.err = ErrIncorrectPassphrase /\ unwrap.fileKey = ""
        ELSE unwrap.err = "" /\ unwrap.fileKey = TheFileKey

\* C17, amended: on a sole scrypt stanza Unwrap never ends with
\* ErrIncorrectIdentity.  A failure of the callback ends with the
\* could-not-read error; an empty passphrase with the error of
\* NewScryptIdentity; a stanza ScryptIdentity does not accept with its
\* error; otherwise a passphrase other than the stanza's ends with the
\* incorrect-passphrase error and the stanza's passphrase with the file key
\* and no error.  The four errors differ from one another and from
\* ErrIncorrectIdentity, and an error comes with no file key.
C17_PassphraseErrorsDistinct ==
    (unwrap.pc = "done" /\ SoleScrypt(unwrap.stanzas)) =>
        /\ unwrap.err # ErrIncorrectIdentity
        /\ unwrap.err # "" => unwrap.fileKey = ""
        /\ IF unwrap.Passphrase.err # ""
           THEN unwrap.err = ErrReadPassphrase(unwrap.Passphrase.err)
           ELSE IF unwrap.Passphrase.pass = ""
           THEN unwrap.err = ErrEmptyPassphrase
           ELSE IF ~unwrap.stanzas[1].valid
           THEN unwrap.err = ErrInvalidStanza
           ELSE IF unwrap.Passphrase.pass # unwrap.stanzas[1].pass
           THEN unwrap.err = ErrIncorrectPassphrase
           ELSE unwrap.err = "" /\ unwrap.fileKey = TheFileKey
        /\ Cardinality({ErrIncorrectIdentity, ErrIncorrectPassphrase,
                        ErrEmptyPassphrase, ErrInvalidStanza,
                        ErrReadPassphrase(unwrap.Passphrase.err)}) = 5

\* Unwrap has ended on a sole scrypt stanza with the incorrect-passphrase
\* error, after one call of the callback that returned another passphrase.
C17_Witness ==
    /\ unwrap.pc = "done"
    /\ SoleScrypt(unwrap.stanzas)
    /\ unwrap.prompts = 1
    /\ unwrap.Passphrase.pass \notin {"", unwrap.stanzas[1].pass}
    /\ unwrap.err = ErrIncorrectPassphrase

\* C20: a request is answered 200 or 401, and 200 only when the second of
\* the header's space-separated parts is the token of a row of
\* access_tokens whose expiry is not before the time read.
C20_SuccessOnlyForValidToken ==
    check.pc = "done" =>
        /\ check.status \in {200, 401}
        /\ check.status = 200 =>
            LET bearers == Split(check.Authorization) IN
            /\ Len(bearers) >= 2
            /\ \E i \in 1..Len(accessTokens) :
                /\ accessTokens[i].Token = bearers[2]
                /\ ~Before(accessTokens[i].TokenExpiredAt, check.now)

====
